---- MODULE Spec2Model ----
(***************************************************************************)
(* Conway's Game of Life (mayoujin/gol): the Generation grid engine of     *)
(* src/unnamed/part_000 -- construction, lazy population by createGrid,    *)
(* and the two-pass transition of updateNextGenCellsAlive -- and the Game   *)
(* that drives it: nextIteration, the timer loop, start and stop.          *)
(*                                                                         *)
(* JavaScript runs each call to completion; next() is modelled as the      *)
(* sequence of its loop iterations, pc naming the loop the call is in, so  *)
(* that the order of reads and writes inside one call can be stated.       *)
(* Nothing else can run while pc # "idle".                                 *)
(***************************************************************************)
EXTENDS Integers, Sequences, FiniteSets

VARIABLES
    options,      \* the options object handed to new Generation(options)
    columns,      \* Generation.columns
    rows,         \* Generation.rows
    cells,        \* Generation.cells: cells[k + 1] is the JavaScript cells[k]
    pc,           \* "constructor" | "idle" | "createGrid" | "compute" | "commit"
    x,            \* loop variable x of createGrid / updateNextGenCellsAlive
    y,            \* loop variable y of createGrid / updateNextGenCellsAlive
    i,            \* index of the forEach callback of the commit pass
    countAlive,   \* const countAlive of the last loop body that ran
    centerIndex,  \* const centerIndex of the last loop body that ran
    lastOp,       \* history: branch taken by the last next(): "none" | "createGrid" | "update"
    pre,          \* history: cells as they were when the current/last transition began
    computed,     \* history: indices whose nextAlive was written by the current/last transition
    signal,       \* Game.#signal: "null" | "active" (aborted === false) | "aborted"
    controller,   \* Game.#controller: 0 for null, else the number of the AbortController
    iterationCount, \* Game.iterationCount
    pending,      \* number of loop callbacks waiting (requestAnimationFrame or setTimeout)
    task,         \* what runs the current nextIteration(): "none" | "direct" | "loop"
    gpc,          \* position of the Game: "idle" | "nextGeneration"
    drawIndex,    \* index of the forEach callback of the drawing pass
    drawn,        \* the canvas: what drawCell painted since the last clearArea, in order
    error,        \* the Error thrown by the last start() or stop(), "none" if it returned
    phase,        \* test harness: "off" | "first" | "second" instance under comparison
    seed,         \* test harness: the alive pattern both instances are set to
    memo,         \* test harness: the first instance's pattern after 1, 2, ... transitions
    made          \* test harness: transitions the second instance has made

genVars == <<options, columns, rows, cells, pc, x, y, i, countAlive, centerIndex,
             lastOp, pre, computed>>

gameVars == <<signal, controller, iterationCount, pending, task, gpc, drawIndex,
              drawn, error>>

harnessVars == <<phase, seed, memo, made>>

vars == <<genVars, gameVars, harnessVars>>

----------------------------------------------------------------------------
(* Bounds of the model *)

MaxColumns == 3
MaxRows == 3
MaxCells == 9
MaxNegative == 1
MaxTextLen == 2
MaxGameCells == 4
MaxIterations == 3
MaxStarts == 2
MaxTransitions == 2
MaxTwinCells == 6

(* Program constants *)

DefaultColumns == 50
DefaultRows == 50
FallbackRows == 100
FallbackColumns == 100

----------------------------------------------------------------------------
(* JavaScript values that reach the constructor *)

Undefined == [type |-> "undefined", val |-> 0]
NaN == [type |-> "NaN", val |-> 0]
Num(n) == [type |-> "number", val |-> n]

\* ToBoolean: undefined, NaN and 0 are falsy, every other number is truthy.
Truthy(v) == v.type = "number" /\ v.val # 0

\* a || b
OrElse(a, b) == IF Truthy(a) THEN a ELSE b

(* Text of an <input>: a sequence of characters *)
Chars == {"-", "0", "1", "2", "3", "x"}
Digits == {"0", "1", "2", "3"}

DigitVal(c) == CASE c = "0" -> 0 [] c = "1" -> 1 [] c = "2" -> 2 [] c = "3" -> 3

RECURSIVE DecimalVal(_)
DecimalVal(s) ==
    IF s = <<>> THEN 0
    ELSE 10 * DecimalVal(SubSeq(s, 1, Len(s) - 1)) + DigitVal(s[Len(s)])

AllDigits(s) == \A k \in DOMAIN s : s[k] \in Digits

\* Number(text): "" is 0, an optionally signed run of decimal digits is its
\* value, anything else is NaN.
Number(s) ==
    IF s = <<>> THEN Num(0)
    ELSE IF AllDigits(s) THEN Num(DecimalVal(s))
    ELSE IF s[1] = "-" /\ Len(s) > 1 /\ AllDigits(Tail(s)) THEN Num(0 - DecimalVal(Tail(s)))
    ELSE NaN

buildGameOptions(rowsValue, columnsValue) ==
    [rows    |-> OrElse(Number(rowsValue), Num(FallbackRows)),
     columns |-> OrElse(Number(columnsValue), Num(FallbackColumns))]

\* Generation's constructor: the field initialisers, then the two ifs.
GenerationRows(opts) == IF Truthy(opts.rows) THEN opts.rows.val ELSE DefaultRows
GenerationColumns(opts) == IF Truthy(opts.columns) THEN opts.columns.val ELSE DefaultColumns

----------------------------------------------------------------------------
(* Cell and the grid helpers *)

\* new Cell(gridX, gridY); random is the outcome of Math.random() > 0.5.
\* nextAlive is no field of a new Cell: <<>> stands for undefined, <<b>> for b.
Cell(gridX, gridY, random) ==
    [gridX |-> gridX, gridY |-> gridY, alive |-> random, nextAlive |-> <<>>]

\* Variant of gridToIndex: the row is scaled by the number of rows.
gridToIndexByRows(gx, gy) == gx + gy * rows

gridToIndex(gx, gy) == gx + gy * columns

\* Variant of isAlive: the grid wraps around its edges (a torus).
isAliveTorus(gx, gy) ==
    IF cells[((gx + columns) % columns) + ((gy + rows) % rows) * columns + 1].alive
    THEN 1 ELSE 0

\* Variant of isAlive: a position off the grid counts as alive.
isAliveOffGrid(gx, gy) ==
    IF gx < 0 \/ gx >= columns \/ gy < 0 \/ gy >= rows
    THEN 1
    ELSE IF cells[gx + gy * columns + 1].alive THEN 1 ELSE 0

isAlive(gx, gy) ==
    IF gx < 0 \/ gx >= columns \/ gy < 0 \/ gy >= rows
    THEN 0
    ELSE IF cells[gridToIndex(gx, gy) + 1].alive THEN 1 ELSE 0

\* The indices of cells that isAlive(gx, gy) reads: none for a position off the grid.
isAliveReads(gx, gy) ==
    IF gx < 0 \/ gx >= columns \/ gy < 0 \/ gy >= rows
    THEN {}
    ELSE {gridToIndex(gx, gy)}

\* The indices of cells that the loop body for (gx, gy) reads or writes.
BodyReads(gx, gy) ==
    isAliveReads(gx - 1, gy - 1) \cup isAliveReads(gx, gy - 1) \cup isAliveReads(gx + 1, gy - 1) \cup
    isAliveReads(gx - 1, gy) \cup isAliveReads(gx + 1, gy) \cup
    isAliveReads(gx - 1, gy + 1) \cup isAliveReads(gx, gy + 1) \cup isAliveReads(gx + 1, gy + 1) \cup
    {gridToIndex(gx, gy)}

\* Variant of CountAlive: the cell itself is counted with its neighbours.
CountAliveWithCentre(gx, gy) ==
    isAlive(gx - 1, gy - 1) + isAlive(gx, gy - 1) + isAlive(gx + 1, gy - 1) +
    isAlive(gx - 1, gy) + isAlive(gx, gy) + isAlive(gx + 1, gy) +
    isAlive(gx - 1, gy + 1) + isAlive(gx, gy + 1) + isAlive(gx + 1, gy + 1)

\* The sum of the eight isAlive calls of the loop body.
CountAlive(gx, gy) ==
    isAlive(gx - 1, gy - 1) + isAlive(gx, gy - 1) + isAlive(gx + 1, gy - 1) +
    isAlive(gx - 1, gy) + isAlive(gx + 1, gy) +
    isAlive(gx - 1, gy + 1) + isAlive(gx, gy + 1) + isAlive(gx + 1, gy + 1)

\* Variant of the switch: case 2 is missing.
NextAliveNoCaseTwo(count, index) ==
    CASE count = 3 -> TRUE
      [] OTHER -> FALSE

\* Variant of the switch: case 3 keeps the state, as case 2 does.
NextAliveCaseThreeKeeps(count, index) ==
    CASE count = 2 -> cells[index + 1].alive
      [] count = 3 -> cells[index + 1].alive
      [] OTHER -> FALSE

\* Variant of the switch: the default keeps the state instead of killing.
NextAliveDefaultKeeps(count, index) ==
    CASE count = 3 -> TRUE
      [] OTHER -> cells[index + 1].alive

\* Variant of the switch: case 2 returns the cell's nextAlive, not its alive.
NextAliveStale(count, index) ==
    CASE count = 2 -> (IF cells[index + 1].nextAlive = <<>>
                       THEN FALSE ELSE cells[index + 1].nextAlive[1])
      [] count = 3 -> TRUE
      [] OTHER -> FALSE

\* The switch of the loop body.
NextAliveOf(count, index) ==
    CASE count = 2 -> cells[index + 1].alive
      [] count = 3 -> TRUE
      [] OTHER -> FALSE

----------------------------------------------------------------------------
(* Inputs *)

Texts == UNION {[1..n -> Chars] : n \in 0..MaxTextLen}

\* What a caller may pass for rows or columns: nothing, NaN, or a number.
JSValues == {Undefined, NaN} \cup {Num(n) : n \in (0 - MaxNegative)..MaxColumns}

\* Options as startGame builds them from the two <input> texts.
BuiltOptions == {buildGameOptions(rv, cv) : rv \in Texts, cv \in Texts}

\* Every options object of the constructor model.
AllOptions == [rows : JSValues, columns : JSValues] \cup BuiltOptions

\* Dimensions of the grids whose life is explored: the small positive ones and
\* the negative ones the constructor lets through.
GridDims == ((0 - MaxNegative)..(0 - 1)) \cup (1..MaxColumns) \cup (1..MaxRows)

GridOptions ==
    {o \in [rows : {Num(n) : n \in GridDims}, columns : {Num(n) : n \in GridDims}] :
        /\ o.rows.val <= MaxRows
        /\ o.columns.val <= MaxColumns
        /\ (o.rows.val > 0 /\ o.columns.val > 0) => o.rows.val * o.columns.val <= MaxCells}

----------------------------------------------------------------------------
(* new Generation(options) *)

\* The class fields are initialised; the constructor body has not run yet.
FieldsInitialised ==
    /\ pc = "constructor"
    /\ columns = DefaultColumns
    /\ rows = DefaultRows
    /\ cells = <<>>
    /\ x = 0 /\ y = 0 /\ i = 0
    /\ countAlive = 0 /\ centerIndex = 0
    /\ lastOp = "none"
    /\ pre = <<>>
    /\ computed = {}

\* The class fields of Game; its constructor stores the renderer and the
\* Generation and nothing else.
GameFieldsInitialised ==
    /\ signal = "null"
    /\ controller = 0
    /\ iterationCount = 0
    /\ pending = 0
    /\ task = "none"
    /\ gpc = "idle"
    /\ drawIndex = 0
    /\ drawn = <<>>
    /\ error = "none"

\* No comparison of two instances is going on.
HarnessOff == phase = "off" /\ seed = <<>> /\ memo = <<>> /\ made = 0

Init == options \in GridOptions /\ FieldsInitialised /\ GameFieldsInitialised /\ HarnessOff

CtorInit == options \in AllOptions /\ FieldsInitialised /\ GameFieldsInitialised /\ HarnessOff

constructor ==
    /\ pc = "constructor"
    /\ rows' = GenerationRows(options)
    /\ columns' = GenerationColumns(options)
    /\ pc' = "idle"
    /\ UNCHANGED <<options, cells, x, y, i, countAlive, centerIndex, lastOp, pre, computed>>

----------------------------------------------------------------------------
(* Generation.next() *)

\* Entry of next(): cells.length chooses the branch.
next ==
    /\ pc = "idle"
    /\ IF Len(cells) # 0
       THEN /\ pc' = "compute"
            /\ lastOp' = "update"
            /\ pre' = cells
            /\ computed' = {}
       ELSE /\ pc' = "createGrid"
            /\ lastOp' = "createGrid"
            /\ UNCHANGED <<pre, computed>>
    /\ x' = 0 /\ y' = 0
    /\ UNCHANGED <<options, columns, rows, cells, i, countAlive, centerIndex>>

\* Variant of the push: the cell is made with its coordinates exchanged.
createGridPushSwapped ==
    /\ pc = "createGrid"
    /\ y < rows
    /\ x < columns
    /\ \E random \in BOOLEAN : cells' = Append(cells, Cell(y, x, random))
    /\ x' = x + 1
    /\ UNCHANGED <<options, columns, rows, pc, y, i, countAlive, centerIndex, lastOp, pre, computed>>

\* createGrid: body of the inner loop, one push.
createGridPush ==
    /\ pc = "createGrid"
    /\ y < rows
    /\ x < columns
    /\ \E random \in BOOLEAN : cells' = Append(cells, Cell(x, y, random))
    /\ x' = x + 1
    /\ UNCHANGED <<options, columns, rows, pc, y, i, countAlive, centerIndex, lastOp, pre, computed>>

\* createGrid: the inner loop ends, the outer loop goes on.
createGridNextRow ==
    /\ pc = "createGrid"
    /\ y < rows
    /\ ~(x < columns)
    /\ y' = y + 1
    /\ x' = 0
    /\ UNCHANGED <<options, columns, rows, cells, pc, i, countAlive, centerIndex, lastOp, pre, computed>>

\* createGrid: the outer loop ends; createGrid and next() return.
createGridReturn ==
    /\ pc = "createGrid"
    /\ ~(y < rows)
    /\ pc' = "idle"
    /\ x' = 0 /\ y' = 0
    /\ UNCHANGED <<options, columns, rows, cells, i, countAlive, centerIndex, lastOp, pre, computed>>

\* What the commit pass copies: a nextAlive that was never written is undefined,
\* which every reader of alive (isAlive's ?:) takes as dead.
ValueOf(nextAlive) == IF nextAlive = <<>> THEN FALSE ELSE nextAlive[1]

\* Variant of the loop body: a single in-place pass, alive written at once.
computeCellInPlace ==
    /\ pc = "compute"
    /\ x < columns
    /\ y < rows
    /\ countAlive' = CountAlive(x, y)
    /\ centerIndex' = gridToIndex(x, y)
    /\ cells' = [cells EXCEPT ![centerIndex' + 1].nextAlive =
                                  <<NextAliveOf(countAlive', centerIndex')>>,
                              ![centerIndex' + 1].alive =
                                  NextAliveOf(countAlive', centerIndex')]
    /\ computed' = computed \cup {centerIndex'}
    /\ y' = y + 1
    /\ UNCHANGED <<options, columns, rows, pc, x, i, lastOp, pre>>

\* updateNextGenCellsAlive: body of the inner loop for the cell (x, y).
computeCell ==
    /\ pc = "compute"
    /\ x < columns
    /\ y < rows
    /\ countAlive' = CountAlive(x, y)
    /\ centerIndex' = gridToIndex(x, y)
    /\ cells' = [cells EXCEPT ![centerIndex' + 1].nextAlive =
                                  <<NextAliveOf(countAlive', centerIndex')>>]
    /\ computed' = computed \cup {centerIndex'}
    /\ y' = y + 1
    /\ UNCHANGED <<options, columns, rows, pc, x, i, lastOp, pre>>

\* updateNextGenCellsAlive: the inner loop ends, the outer loop goes on.
computeNextColumn ==
    /\ pc = "compute"
    /\ x < columns
    /\ ~(y < rows)
    /\ x' = x + 1
    /\ y' = 0
    /\ UNCHANGED <<options, columns, rows, cells, pc, i, countAlive, centerIndex, lastOp, pre, computed>>

\* updateNextGenCellsAlive: the outer loop ends, cells.forEach begins.
computeDone ==
    /\ pc = "compute"
    /\ ~(x < columns)
    /\ pc' = "commit"
    /\ i' = 0
    /\ x' = 0 /\ y' = 0
    /\ UNCHANGED <<options, columns, rows, cells, countAlive, centerIndex, lastOp, pre, computed>>

\* cells.forEach: the callback for cells[i].
commitCell ==
    /\ pc = "commit"
    /\ i < Len(cells)
    /\ cells' = [cells EXCEPT ![i + 1].alive = ValueOf(cells[i + 1].nextAlive)]
    /\ i' = i + 1
    /\ UNCHANGED <<options, columns, rows, pc, x, y, countAlive, centerIndex, lastOp, pre, computed>>

\* Variant of the return: the dead cells are dropped from the collection.
commitReturnFilter ==
    /\ pc = "commit"
    /\ ~(i < Len(cells))
    /\ pc' = "idle"
    /\ i' = 0
    /\ cells' = SelectSeq(cells, LAMBDA c : c.alive)
    /\ UNCHANGED <<options, columns, rows, x, y, countAlive, centerIndex, lastOp, pre, computed>>

\* cells.forEach is over; updateNextGenCellsAlive and next() return.
commitReturn ==
    /\ pc = "commit"
    /\ ~(i < Len(cells))
    /\ pc' = "idle"
    /\ i' = 0
    /\ UNCHANGED <<options, columns, rows, cells, x, y, countAlive, centerIndex, lastOp, pre, computed>>

\* The Game and the test harness are not involved in a step.
GenerationOnly == UNCHANGED <<gameVars, harnessVars>>

\* A Generation used on its own: constructed, then next() called again and again.
Next ==
    \/ constructor /\ GenerationOnly
    \/ next /\ GenerationOnly
    \/ createGridPush /\ GenerationOnly
    \/ createGridNextRow /\ GenerationOnly
    \/ createGridReturn /\ GenerationOnly
    \/ computeCell /\ GenerationOnly
    \/ computeNextColumn /\ GenerationOnly
    \/ computeDone /\ GenerationOnly
    \/ commitCell /\ GenerationOnly
    \/ commitReturn /\ GenerationOnly

Spec == Init /\ [][Next]_vars

CtorNext == constructor /\ GenerationOnly

CtorSpec == CtorInit /\ [][CtorNext]_vars

----------------------------------------------------------------------------
(* Game: nextIteration, the timer loop, start and stop. Every callback runs *)
(* to its end before another begins: each entry needs gpc = "idle".         *)

\* What CanvasRenderer.drawCell paints for a cell: its place and its colour.
View(cell) == [gridX |-> cell.gridX, gridY |-> cell.gridY, alive |-> cell.alive]

\* The options of the games that are explored: the smallest grids.
GameOptions ==
    {o \in GridOptions :
        (o.rows.val > 0 /\ o.columns.val > 0) => o.rows.val * o.columns.val <= MaxGameCells}

GameInit == options \in GameOptions /\ FieldsInitialised /\ GameFieldsInitialised /\ HarnessOff

\* Variant of BeginIteration: #nextGeneration paints the cells before it calls
\* generation.next().
BeginIterationDrawFirst(t) ==
    /\ gpc = "idle"
    /\ signal # "aborted"
    /\ iterationCount < MaxIterations
    /\ drawn' = [k \in DOMAIN cells |-> View(cells[k])]
    /\ next
    /\ gpc' = "nextGeneration"
    /\ task' = t
    /\ drawIndex' = 0
    /\ UNCHANGED <<signal, controller, iterationCount, error>>

\* Variant of BeginIteration: nextIteration does not look at the signal.
BeginIterationUnchecked(t) ==
    /\ gpc = "idle"
    /\ iterationCount < MaxIterations
    /\ drawn' = <<>>
    /\ next
    /\ gpc' = "nextGeneration"
    /\ task' = t
    /\ drawIndex' = 0
    /\ UNCHANGED <<signal, controller, iterationCount, error>>

\* nextIteration() past its guard, then #nextGeneration up to the call of
\* generation.next(): clearArea, and next() is entered.
BeginIteration(t) ==
    /\ gpc = "idle"
    /\ signal # "aborted"
    /\ iterationCount < MaxIterations
    /\ drawn' = <<>>
    /\ next
    /\ gpc' = "nextGeneration"
    /\ task' = t
    /\ drawIndex' = 0
    /\ UNCHANGED <<signal, controller, iterationCount, error>>

\* nextIteration() called by a user of the Game while the signal is aborted.
nextIterationAborted ==
    /\ gpc = "idle" /\ pc = "idle"
    /\ signal = "aborted"
    /\ UNCHANGED <<genVars, gameVars>>

\* nextIteration() called by a user of the Game.
nextIteration ==
    /\ BeginIteration("direct")
    /\ UNCHANGED pending

\* The loop callback fires while the signal is aborted: nextIteration() returns
\* at once and setTimeout re-arms the loop.
loopAborted ==
    /\ gpc = "idle" /\ pc = "idle"
    /\ pending > 0
    /\ signal = "aborted"
    /\ UNCHANGED <<genVars, gameVars>>

\* The loop callback fires and runs nextIteration().
loop ==
    /\ pending > 0
    /\ BeginIteration("loop")
    /\ pending' = pending - 1

\* #nextGeneration: generation.next() has returned; the forEach callback for cells[drawIndex].
drawCell ==
    /\ gpc = "nextGeneration" /\ pc = "idle"
    /\ drawIndex < Len(cells)
    /\ drawn' = Append(drawn, View(cells[drawIndex + 1]))
    /\ drawIndex' = drawIndex + 1
    /\ UNCHANGED <<genVars, signal, controller, iterationCount, pending, task, gpc, error>>

\* The forEach is over; #increaseIterationCount; nextIteration() returns, and the
\* loop, if it was the caller, re-arms itself with setTimeout.
iterationDone ==
    /\ gpc = "nextGeneration" /\ pc = "idle"
    /\ ~(drawIndex < Len(cells))
    /\ iterationCount' = iterationCount + 1
    /\ pending' = IF task = "loop" THEN pending + 1 ELSE pending
    /\ task' = "none"
    /\ gpc' = "idle"
    /\ drawIndex' = 0
    /\ UNCHANGED <<genVars, signal, controller, drawn, error>>

\* start() on a running game throws.
startThrows ==
    /\ gpc = "idle" /\ pc = "idle"
    /\ signal = "active"
    /\ error' = "Game is running and not be started. Stop it first."
    /\ UNCHANGED <<genVars, signal, controller, iterationCount, pending, task, gpc, drawIndex, drawn>>

\* Variant of start(): the test of the signal is missing.
startUnguarded ==
    /\ gpc = "idle" /\ pc = "idle"
    /\ controller < MaxStarts
    /\ controller' = controller + 1
    /\ signal' = "active"
    /\ pending' = pending + 1
    /\ error' = "none"
    /\ UNCHANGED <<genVars, iterationCount, task, gpc, drawIndex, drawn>>

\* start(): a new AbortController, its signal, and the loop handed to
\* requestAnimationFrame.
start ==
    /\ gpc = "idle" /\ pc = "idle"
    /\ signal # "active"
    /\ controller < MaxStarts
    /\ controller' = controller + 1
    /\ signal' = "active"
    /\ pending' = pending + 1
    /\ error' = "none"
    /\ UNCHANGED <<genVars, iterationCount, task, gpc, drawIndex, drawn>>

\* stop() on a game that was never started throws.
stopThrows ==
    /\ gpc = "idle" /\ pc = "idle"
    /\ controller = 0
    /\ error' = "Game is not running"
    /\ UNCHANGED <<genVars, signal, controller, iterationCount, pending, task, gpc, drawIndex, drawn>>

\* Variant of stop(): it throws unless the game is running.
stopOnlyRunning ==
    /\ gpc = "idle" /\ pc = "idle"
    /\ controller # 0
    /\ IF signal = "active"
       THEN signal' = "aborted" /\ error' = "none"
       ELSE signal' = signal /\ error' = "Game is not running"
    /\ UNCHANGED <<genVars, controller, iterationCount, pending, task, gpc, drawIndex, drawn>>

\* stop(): the controller aborts, and so the signal is aborted.
stop ==
    /\ gpc = "idle" /\ pc = "idle"
    /\ controller # 0
    /\ signal' = "aborted"
    /\ error' = "none"
    /\ UNCHANGED <<genVars, controller, iterationCount, pending, task, gpc, drawIndex, drawn>>

HarnessOnly == UNCHANGED harnessVars

\* A Game: constructed, then driven by its loop and its callers. The Generation
\* is private to it: next() runs only inside nextIteration().
GameNext ==
    \/ constructor /\ GenerationOnly
    \/ createGridPush /\ GenerationOnly
    \/ createGridNextRow /\ GenerationOnly
    \/ createGridReturn /\ GenerationOnly
    \/ computeCell /\ GenerationOnly
    \/ computeNextColumn /\ GenerationOnly
    \/ computeDone /\ GenerationOnly
    \/ commitCell /\ GenerationOnly
    \/ commitReturn /\ GenerationOnly
    \/ nextIterationAborted /\ HarnessOnly
    \/ nextIteration /\ HarnessOnly
    \/ loopAborted /\ HarnessOnly
    \/ loop /\ HarnessOnly
    \/ drawCell /\ HarnessOnly
    \/ iterationDone /\ HarnessOnly
    \/ startThrows /\ HarnessOnly
    \/ start /\ HarnessOnly
    \/ stopThrows /\ HarnessOnly
    \/ stop /\ HarnessOnly

GameSpec == GameInit /\ [][GameNext]_vars

\* What the browser does on its own: a timer fires the loop callback, and a
\* callback that has begun runs to its end.
TimerNext ==
    \/ (loop \/ loopAborted) /\ HarnessOnly
    \/ (drawCell \/ iterationDone) /\ HarnessOnly
    \/ (createGridPush \/ createGridNextRow \/ createGridReturn) /\ GenerationOnly
    \/ (computeCell \/ computeNextColumn \/ computeDone) /\ GenerationOnly
    \/ (commitCell \/ commitReturn) /\ GenerationOnly

\* The Game with its timers firing; the calls of start(), stop() and
\* nextIteration() by its user may or may not come.
GameLiveSpec == GameSpec /\ WF_vars(TimerNext)

----------------------------------------------------------------------------
(* Two instances compared. A test sets a second Generation of the same      *)
(* dimensions to the alive pattern a first one had, and advances it as many  *)
(* times. The instances share nothing, so the second runs after the first,   *)
(* in the same variables; the harness keeps what the first one showed.       *)

AlivePattern(g) == [k \in DOMAIN g |-> g[k].alive]

TwinOptions ==
    {o \in GridOptions :
        (o.rows.val > 0 /\ o.columns.val > 0) => o.rows.val * o.columns.val <= MaxTwinCells}

TwinInit ==
    /\ options \in TwinOptions
    /\ FieldsInitialised
    /\ GameFieldsInitialised
    /\ phase = "first" /\ seed = <<>> /\ memo = <<>> /\ made = 0

\* The test notes the pattern of the first instance, whatever it has done so far.
seedFirst ==
    /\ phase = "first"
    /\ pc = "idle"
    /\ Len(cells) > 0
    /\ seed = <<>>
    /\ seed' = AlivePattern(cells)
    /\ UNCHANGED <<genVars, gameVars, phase, memo, made>>

\* The test calls next(): on the first instance before the pattern is noted and
\* up to MaxTransitions times after, on the second as often as on the first.
twinNext ==
    /\ \/ phase = "first" /\ seed = <<>>
       \/ phase = "first" /\ seed # <<>> /\ Len(memo) < MaxTransitions
       \/ phase = "second" /\ made < Len(memo)
    /\ next
    /\ UNCHANGED <<gameVars, harnessVars>>

\* A transition returns and the test looks at the pattern.
twinCommitReturn ==
    /\ commitReturn
    /\ memo' = IF phase = "first" /\ seed # <<>> THEN Append(memo, AlivePattern(cells)) ELSE memo
    /\ made' = IF phase = "second" THEN made + 1 ELSE made
    /\ UNCHANGED <<gameVars, phase, seed>>

\* The test builds the second instance: new Generation(options), the grid of
\* createGrid, every alive set to the noted pattern.
seedSecond ==
    /\ phase = "first"
    /\ pc = "idle"
    /\ Len(memo) >= 1
    /\ phase' = "second"
    /\ made' = 0
    /\ cells' = [k \in DOMAIN cells |-> Cell(cells[k].gridX, cells[k].gridY, seed[k])]
    /\ lastOp' = "createGrid"
    /\ pre' = <<>>
    /\ computed' = {}
    /\ countAlive' = 0 /\ centerIndex' = 0
    /\ x' = 0 /\ y' = 0 /\ i' = 0
    /\ UNCHANGED <<options, columns, rows, pc, gameVars, seed, memo>>

TwinNext ==
    \/ constructor /\ GenerationOnly
    \/ twinNext
    \/ createGridPush /\ GenerationOnly
    \/ createGridNextRow /\ GenerationOnly
    \/ createGridReturn /\ GenerationOnly
    \/ computeCell /\ GenerationOnly
    \/ computeNextColumn /\ GenerationOnly
    \/ computeDone /\ GenerationOnly
    \/ commitCell /\ GenerationOnly
    \/ twinCommitReturn
    \/ seedFirst
    \/ seedSecond

TwinSpec == TwinInit /\ [][TwinNext]_vars

----------------------------------------------------------------------------
(* The historical variants: CellManager.checkSurrounding, as a function of   *)
(* the collection g it is run on (gameObjects or cells), with the columns    *)
(* and rows of the grid. isAlive returns the boolean false off the grid and  *)
(* the numbers 1 or 0 on it; the eight results are added with +.             *)

JSFalse == [type |-> "boolean", val |-> 0]

\* ToNumber: false is 0, undefined is NaN.
ToNumber(v) ==
    CASE v.type = "boolean" -> Num(v.val)
      [] v.type = "undefined" -> NaN
      [] OTHER -> v

\* a + b, neither operand a string.
Plus(a, b) ==
    IF ToNumber(a).type = "NaN" \/ ToNumber(b).type = "NaN"
    THEN NaN
    ELSE Num(ToNumber(a).val + ToNumber(b).val)

\* v == n, n a number
LooseEquals(v, n) == ToNumber(v).type = "number" /\ ToNumber(v).val = n

\* v === n, n a number: what a switch compares with
StrictEquals(v, n) == v.type = "number" /\ v.val = n

\* Variant of CellManager.isAlive: a bare return for a position off the grid.
CellManager_isAliveUndefined(g, gx, gy) ==
    IF gx < 0 \/ gx >= columns \/ gy < 0 \/ gy >= rows
    THEN Undefined
    ELSE IF g[gx + gy * columns + 1].alive THEN Num(1) ELSE Num(0)

CellManager_isAlive(g, gx, gy) ==
    IF gx < 0 \/ gx >= columns \/ gy < 0 \/ gy >= rows
    THEN JSFalse
    ELSE IF g[gx + gy * columns + 1].alive THEN Num(1) ELSE Num(0)

\* let numAlive = isAlive(x - 1, y - 1) + ... + isAlive(x + 1, y + 1), left to right
CellManager_numAlive(g, gx, gy) ==
    Plus(Plus(Plus(Plus(Plus(Plus(Plus(
        CellManager_isAlive(g, gx - 1, gy - 1),
        CellManager_isAlive(g, gx, gy - 1)),
        CellManager_isAlive(g, gx + 1, gy - 1)),
        CellManager_isAlive(g, gx - 1, gy)),
        CellManager_isAlive(g, gx + 1, gy)),
        CellManager_isAlive(g, gx - 1, gy + 1)),
        CellManager_isAlive(g, gx, gy + 1)),
        CellManager_isAlive(g, gx + 1, gy + 1))

\* if (numAlive == 2) ... else if (numAlive == 3) ... else ...
RuleIfElse(numAlive, alive) ==
    IF LooseEquals(numAlive, 2) THEN alive
    ELSE IF LooseEquals(numAlive, 3) THEN TRUE
    ELSE FALSE

\* switch (numAlive) { case 2: ... break; case 3: ... break; default: ... }
RuleSwitch(numAlive, alive) ==
    CASE StrictEquals(numAlive, 2) -> alive
      [] StrictEquals(numAlive, 3) -> TRUE
      [] OTHER -> FALSE

\* ((countAlive) => { switch (countAlive) { case 2: return ...; ... } })(countAlive)
RuleSwitchInFunction(count, alive) ==
    CASE StrictEquals(count, 2) -> alive
      [] StrictEquals(count, 3) -> TRUE
      [] OTHER -> FALSE

Variants == {"ifElse", "switch", "switchInFunction"}

RuleOf(variant, numAlive, alive) ==
    CASE variant = "ifElse" -> RuleIfElse(numAlive, alive)
      [] variant = "switch" -> RuleSwitch(numAlive, alive)
      [] variant = "switchInFunction" -> RuleSwitchInFunction(numAlive, alive)

\* The two nested loops from their n-th round on, x outer and y inner: each
\* round writes nextAlive of the cell at index x + y * columns in the collection itself.
RECURSIVE checkSurroundingLoop(_, _, _)
checkSurroundingLoop(variant, g, n) ==
    IF n >= columns * rows
    THEN g
    ELSE LET gx == n \div rows
             gy == n % rows
             numAlive == CellManager_numAlive(g, gx, gy)
             index == gx + gy * columns
         IN  checkSurroundingLoop(variant,
                 [g EXCEPT ![index + 1].nextAlive =
                               <<RuleOf(variant, numAlive, g[index + 1].alive)>>],
                 n + 1)

\* The loops, then "Apply the new state to the cells".
checkSurrounding(variant, g) ==
    LET marked == checkSurroundingLoop(variant, g, 0)
    IN  [k \in DOMAIN marked |-> [marked[k] EXCEPT !.alive = ValueOf(marked[k].nextAlive)]]

----------------------------------------------------------------------------
(* The reference the claims are stated against: Conway's rule on a grid    *)
(* with hard edges, read off the cells' own coordinates.                   *)

InGrid(p) == p[1] \in 0..(columns - 1) /\ p[2] \in 0..(rows - 1)

Moore(cx, cy) ==
    {<<cx + dx, cy + dy>> : dx \in {-1, 0, 1}, dy \in {-1, 0, 1}} \ {<<cx, cy>>}

AliveAt(g, p) ==
    \E k \in DOMAIN g : g[k].gridX = p[1] /\ g[k].gridY = p[2] /\ g[k].alive

MooreAlive(g, cx, cy) ==
    Cardinality({p \in Moore(cx, cy) : InGrid(p) /\ AliveAt(g, p)})

NeighboursOf(g, k) == MooreAlive(g, g[k].gridX, g[k].gridY)

B3S23(g, k) ==
    IF g[k].alive THEN NeighboursOf(g, k) \in {2, 3} ELSE NeighboursOf(g, k) = 3

\* A transition has run to its end: pre is the grid before it, cells the grid after.
TransitionDone == pc = "idle" /\ lastOp = "update"

AllIndices == 0..(Len(cells) - 1)

----------------------------------------------------------------------------
(* C1: one transition is computed from a single snapshot. While the compute *)
(* pass runs no alive field differs from its value at the start of the call; *)
(* the commit pass begins only when nextAlive has been written, in this call, *)
(* for every cell, and copies exactly that value; and every nextAlive written *)
(* is the rule applied to the values the cells had at the start of the call. *)
C1_SingleSnapshot ==
    /\ pc = "compute" =>
          /\ Len(cells) = Len(pre)
          /\ \A k \in DOMAIN cells : cells[k].alive = pre[k].alive
    /\ pc = "commit" =>
          /\ computed = AllIndices
          /\ \A k \in DOMAIN cells :
                /\ cells[k].nextAlive # <<>>
                /\ cells[k].alive = IF k <= i THEN cells[k].nextAlive[1] ELSE pre[k].alive
    /\ pc \in {"compute", "commit"} \/ TransitionDone =>
          \A k \in DOMAIN cells :
             (k - 1) \in computed => cells[k].nextAlive = <<B3S23(pre, k)>>

\* C1 witness: the commit pass is under way on a grid of at least two columns
\* and rows, one cell already changed and one still to change.
C1_Witness ==
    /\ pc = "commit"
    /\ columns >= 2 /\ rows >= 2
    /\ \E k \in DOMAIN cells : k <= i /\ cells[k].alive # pre[k].alive
    /\ \E k \in DOMAIN cells : k > i /\ cells[k].nextAlive # <<cells[k].alive>>

(* C2: the grid after one transition is the B3/S23 step of the grid before *)
(* it on a non-wrapping grid: same cells, each alive iff the rule says so.  *)
C2_RefinesB3S23 ==
    TransitionDone =>
        /\ Len(cells) = Len(pre)
        /\ \A k \in DOMAIN cells :
              /\ cells[k].gridX = pre[k].gridX
              /\ cells[k].gridY = pre[k].gridY
              /\ cells[k].alive = B3S23(pre, k)

\* C2 witness: a transition of a 3x3 grid with a birth, a death and a survival.
C2_Witness ==
    /\ TransitionDone
    /\ columns = 3 /\ rows = 3
    /\ \E k \in DOMAIN cells : ~pre[k].alive /\ cells[k].alive
    /\ \E k \in DOMAIN cells : pre[k].alive /\ ~cells[k].alive
    /\ \E k \in DOMAIN cells : pre[k].alive /\ cells[k].alive

(* C3: a cell with exactly 2 alive neighbours before the transition keeps *)
(* its alive value.                                                         *)
C3_TwoKeeps ==
    TransitionDone =>
        \A k \in DOMAIN pre :
            NeighboursOf(pre, k) = 2 => cells[k].alive = pre[k].alive

\* C3 witness: an alive and a dead cell, each with exactly 2 alive neighbours.
C3_Witness ==
    /\ TransitionDone
    /\ \E k \in DOMAIN pre : NeighboursOf(pre, k) = 2 /\ pre[k].alive /\ cells[k].alive
    /\ \E k \in DOMAIN pre : NeighboursOf(pre, k) = 2 /\ ~pre[k].alive /\ ~cells[k].alive

(* C4: a cell with exactly 3 alive neighbours before the transition is alive *)
(* after it, whatever it was.                                               *)
C4_ThreeAlive ==
    TransitionDone =>
        \A k \in DOMAIN pre : NeighboursOf(pre, k) = 3 => cells[k].alive

\* C4 witness: a dead and an alive cell, each with exactly 3 alive neighbours.
C4_Witness ==
    /\ TransitionDone
    /\ \E k \in DOMAIN pre : NeighboursOf(pre, k) = 3 /\ ~pre[k].alive
    /\ \E k \in DOMAIN pre : NeighboursOf(pre, k) = 3 /\ pre[k].alive

(* C5: a cell with 0, 1, 4, 5, 6, 7 or 8 alive neighbours before the        *)
(* transition is dead after it.                                             *)
C5_OtherwiseDead ==
    TransitionDone =>
        \A k \in DOMAIN pre :
            NeighboursOf(pre, k) \in {0, 1, 4, 5, 6, 7, 8} => ~cells[k].alive

\* C5 witness: in one transition a crowded cell (8 neighbours) dies, a cell with
\* 5 neighbours dies, and elsewhere a dead cell with 4 neighbours stays dead.
C5_Witness ==
    /\ TransitionDone
    /\ \E k \in DOMAIN pre : NeighboursOf(pre, k) = 8 /\ pre[k].alive /\ ~cells[k].alive
    /\ \E k \in DOMAIN pre : NeighboursOf(pre, k) = 5 /\ pre[k].alive /\ ~cells[k].alive

\* The loop body has just run for the cell (x, y - 1): it ends with y++.
BodyJustRan == pc = "compute" /\ y > 0

(* C6: the count the loop body uses for its cell is a number in 0..8: the   *)
(* number of alive cells on the Moore positions inside the grid; positions   *)
(* outside contribute nothing and nothing wraps.                            *)
C6_NeighbourCount ==
    BodyJustRan =>
        /\ centerIndex \in AllIndices
        /\ cells[centerIndex + 1].gridX = x
        /\ cells[centerIndex + 1].gridY = y - 1
        /\ countAlive \in 0..8
        /\ countAlive = MooreAlive(pre, x, y - 1)

\* C6 witness: a cell on the grid's edge whose in-grid neighbours are all alive,
\* and some cell on the opposite edge is alive too.
C6_Witness ==
    /\ BodyJustRan
    /\ columns = 3 /\ rows = 3
    /\ x = 0 /\ y = 2
    /\ countAlive = 5
    /\ \E k \in DOMAIN pre : pre[k].gridX = 2 /\ pre[k].alive

AllAlive(g) == \A k \in DOMAIN g : g[k].alive

\* The loop body has just run for the cell (0, 0).
CornerCounted == BodyJustRan /\ x = 0 /\ y = 1

(* C7, as stated: on an all-alive grid of any size the count of the cell    *)
(* (0, 0) is 3.                                                             *)
C7_CornerThree ==
    (CornerCounted /\ AllAlive(pre)) => countAlive = 3

(* C7, amended: on an all-alive grid with at least 2 columns and 2 rows the *)
(* count of the cell (0, 0) is 3, not 8; with a single column or row it is  *)
(* the number of in-grid neighbours, 1, and 0 on the 1x1 grid.              *)
C7_CornerThreeAmended ==
    (CornerCounted /\ AllAlive(pre)) =>
        countAlive = (IF columns >= 2 THEN 2 ELSE 1) * (IF rows >= 2 THEN 2 ELSE 1) - 1

\* C7 witness: the corner of an all-alive 3x3 grid has been counted.
C7_Witness ==
    /\ CornerCounted /\ AllAlive(pre)
    /\ columns = 3 /\ rows = 3
    /\ countAlive = 3

(* C8, as stated: after the first next() of any Generation, cells has       *)
(* columns * rows elements and every (x, y) of the grid is the coordinate   *)
(* pair of exactly one cell.                                                *)
C8_GridComplete ==
    (lastOp # "none" /\ pc # "createGrid") =>
        /\ Len(cells) = columns * rows
        /\ \A gx \in 0..(columns - 1), gy \in 0..(rows - 1) :
              Cardinality({k \in DOMAIN cells :
                              cells[k].gridX = gx /\ cells[k].gridY = gy}) = 1

(* C9, as stated: cells is empty until the first next(); the first next()   *)
(* only populates; every later next() runs the transition and never         *)
(* createGrid, and the cells keep their number and coordinates.             *)
C9_Lifecycle ==
    [][ /\ lastOp = "none" => cells = <<>>
        /\ (pc = "idle" /\ pc' # "idle" /\ lastOp = "none") => pc' = "createGrid"
        /\ (pc = "idle" /\ pc' # "idle" /\ lastOp # "none") => pc' = "compute"
        /\ (lastOp # "none" /\ pc # "createGrid") =>
              /\ Len(cells') = Len(cells)
              /\ \A k \in DOMAIN cells :
                    /\ cells'[k].gridX = cells[k].gridX
                    /\ cells'[k].gridY = cells[k].gridY ]_vars

(* C10, as stated: every constructed Generation has columns > 0 and         *)
(* rows > 0 (the constructor never fails, so a value that is no positive    *)
(* integer would have to be replaced by the fallback).                      *)
C10_PositiveDimensions ==
    pc # "constructor" => (columns > 0 /\ rows > 0)

\* A dimension handed to the constructor that is present and positive.
PresentAndPositive(v) == v.type = "number" /\ v.val > 0

(* C11, as stated: when rows or columns is absent or not positive the       *)
(* construction fails with a validation error and no Generation exists; so  *)
(* a Generation whose constructor has returned was given two present,       *)
(* positive dimensions.                                                     *)
C11_InvalidRejected ==
    pc # "constructor" =>
        (PresentAndPositive(options.rows) /\ PresentAndPositive(options.columns))

\* The loop body is about to run for the cell (x, y) of a grid with valid dimensions.
BodyAboutToRun == pc = "compute" /\ x < columns /\ y < rows /\ columns > 0 /\ rows > 0

(* C12: on a valid populated grid no access of a transition can fail. Every *)
(* index the loop body uses is in 0..columns*rows-1 and holds a cell; a     *)
(* query for a position off the grid reads no index and answers 0, a query  *)
(* for a position on the grid answers 1 or 0 as the cell there is alive or  *)
(* not; and the commit pass finds a cell with a written nextAlive at every  *)
(* index it visits.                                                         *)
C12_NoFailure ==
    /\ BodyAboutToRun =>
          /\ BodyReads(x, y) \subseteq 0..(columns * rows - 1)
          /\ \A k \in BodyReads(x, y) : (k + 1) \in DOMAIN cells
          /\ \A p \in Moore(x, y) :
                IF InGrid(p)
                THEN /\ isAliveReads(p[1], p[2]) # {}
                     /\ isAlive(p[1], p[2]) = IF AliveAt(cells, p) THEN 1 ELSE 0
                ELSE /\ isAliveReads(p[1], p[2]) = {}
                     /\ isAlive(p[1], p[2]) = 0
    /\ (pc = "commit" /\ i < Len(cells) /\ columns > 0 /\ rows > 0) =>
          /\ (i + 1) \in DOMAIN cells
          /\ cells[i + 1].nextAlive # <<>>

\* C12 witness: the body is about to run for the corner (2, 2) of a 3x3 grid, five
\* of its neighbour positions off the grid, the three on the grid alive.
C12_Witness ==
    /\ BodyAboutToRun
    /\ columns = 3 /\ rows = 3
    /\ x = 2 /\ y = 2
    /\ Cardinality(BodyReads(x, y)) = 4
    /\ MooreAlive(cells, x, y) = 3

(* C13: two Generations of the same dimensions set to the same alive       *)
(* pattern show the same pattern after the same number of transitions,      *)
(* whatever else the first one holds from its past (its nextAlive fields,   *)
(* the locals of earlier calls): the second instance, fresh and set to the  *)
(* pattern, shows after k transitions what the first showed after k.        *)
C13_Deterministic ==
    (phase = "second" /\ pc = "idle" /\ made >= 1) =>
        /\ Len(cells) = Len(memo[made])
        /\ AlivePattern(cells) = memo[made]

\* C13 witness: the second instance has made two transitions, each of which
\* changed the pattern.
C13_Witness ==
    /\ phase = "second" /\ pc = "idle"
    /\ made = 2
    /\ memo[1] # seed
    /\ memo[2] # memo[1]
    /\ columns >= 2 /\ rows >= 2

AliveSet(g) == {<<g[k].gridX, g[k].gridY>> : k \in {j \in DOMAIN g : g[j].alive}}

HorizontalTriplet == {<<0, 1>>, <<1, 1>>, <<2, 1>>}

VerticalTriplet == {<<1, 0>>, <<1, 1>>, <<1, 2>>}

BlinkerStepped ==
    /\ TransitionDone
    /\ columns = 3 /\ rows = 3
    /\ AliveSet(pre) = HorizontalTriplet

(* C14: on the 3x3 grid whose alive cells are exactly (0,1), (1,1), (2,1),   *)
(* one transition leaves exactly (1,0), (1,1), (1,2) alive: the edges do not *)
(* wrap.                                                                     *)
C14_Blinker ==
    BlinkerStepped => (Len(cells) = 9 /\ AliveSet(cells) = VerticalTriplet)

\* C14 witness: the transition of the horizontal triplet has returned.
C14_Witness == BlinkerStepped /\ Len(pre) = 9

AllDead(g) == \A k \in DOMAIN g : ~g[k].alive

(* C15: a transition that starts from a populated grid with every cell dead  *)
(* ends with every cell dead, and no step of it makes a cell alive. The      *)
(* grids after one transition are among the grids the next one starts from,  *)
(* so this holds after any number of calls.                                  *)
C15_DeadStaysDead ==
    (lastOp = "update" /\ AllDead(pre)) => AllDead(cells)

\* C15 witness: a transition of the all-dead 3x3 grid has returned.
C15_Witness == TransitionDone /\ AllDead(pre) /\ Len(pre) = 9 /\ AllDead(cells)

Populated == lastOp # "none" /\ pc # "createGrid"

\* The indices the transition has visited when its loops stand at (vx, vy):
\* the columns before vx in full, and column vx down to row vy - 1.
VisitedBefore(vx, vy) ==
    {gx + gy * columns : gx \in 0..(vx - 1), gy \in 0..(rows - 1)}
        \cup {vx + gy * columns : gy \in 0..(vy - 1)}

(* C16: once createGrid has returned, the cell at index x + y * columns has  *)
(* gridX = x and gridY = y for every 0 <= x < columns and 0 <= y < rows;     *)
(* the transition visits the indices column by column, x outer and y inner.  *)
C16_RowMajor ==
    /\ Populated =>
        \A gx \in 0..(columns - 1), gy \in 0..(rows - 1) :
            /\ gx + gy * columns + 1 \in DOMAIN cells
            /\ cells[gx + gy * columns + 1].gridX = gx
            /\ cells[gx + gy * columns + 1].gridY = gy
    /\ (pc = "compute" /\ x < columns) => computed = VisitedBefore(x, y)
    /\ BodyJustRan => centerIndex = x + (y - 1) * columns

\* C16 witness: on a grid that is not square the transition stands inside the
\* second column, having visited index 0, index 3 and then index 1.
C16_Witness ==
    /\ Populated
    /\ columns = 3 /\ rows = 2
    /\ pc = "compute" /\ x = 1 /\ y = 1
    /\ computed = {0, 3, 1}

SameFrame(g, h) ==
    /\ Len(g) = Len(h)
    /\ \A k \in DOMAIN g : g[k].gridX = h[k].gridX /\ g[k].gridY = h[k].gridY

(* C17: every step of a transition, from the call of next() to its return,   *)
(* leaves columns, rows, the length and order of cells and every cell's      *)
(* gridX and gridY as they were.                                             *)
C17_Frame ==
    [][lastOp' = "update" =>
          /\ columns' = columns
          /\ rows' = rows
          /\ SameFrame(cells', cells)
          /\ SameFrame(cells', pre')]_vars

\* C17 witness: a transition that changed the alive pattern has returned.
C17_Witness ==
    /\ TransitionDone
    /\ Len(cells) = 9
    /\ AlivePattern(cells) # AlivePattern(pre)

\* What the renderer has been handed when the first n cells have been drawn.
DrawnSoFar(n) == [k \in 1..n |-> View(cells[k])]

(* C18: in an iteration that is not aborted nothing is drawn while           *)
(* generation.next() runs; after it has returned the cells are drawn one by  *)
(* one in the order of the collection, each once, before the callback ends;  *)
(* every cell the renderer is handed holds the new generation.               *)
C18_DrawAfterNext ==
    /\ pc # "idle" => drawn = <<>>
    /\ (gpc = "nextGeneration" /\ pc = "idle") => drawn = DrawnSoFar(drawIndex)
    /\ (gpc = "idle" /\ iterationCount > 0) => drawn = DrawnSoFar(Len(cells))
    /\ (lastOp = "update" /\ drawn # <<>>) =>
           \A k \in DOMAIN drawn : drawn[k].alive = B3S23(pre, k)

\* C18 witness: an iteration has drawn every cell of a grid that its transition
\* changed, and has not yet returned.
C18_Witness ==
    /\ gpc = "nextGeneration" /\ pc = "idle"
    /\ lastOp = "update"
    /\ Len(cells) = 4
    /\ drawIndex = Len(cells)
    /\ Len(drawn) = 4
    /\ AlivePattern(cells) # AlivePattern(pre)

\* stop() has been called and start() has not succeeded since: either the
\* signal is aborted, or the call threw because the game was never started.
StopCalled == signal = "aborted" \/ error = "Game is not running"

NothingAdvances ==
    /\ cells' = cells
    /\ iterationCount' = iterationCount
    /\ drawn' = drawn

(* C20: once stop() has been called and until start() succeeds, no step      *)
(* changes the cells or iterationCount or draws anything, whoever calls      *)
(* nextIteration().                                                          *)
C20_StoppedIdle == [][StopCalled => NothingAdvances]_vars

(* C20 amended: once stop() has returned without throwing and until start()  *)
(* succeeds, no step changes the cells or iterationCount or draws anything.  *)
C20_StoppedIdleAmended == [][signal = "aborted" => NothingAdvances]_vars

\* C20 witness: a game that has advanced is stopped and its loop callback is
\* still scheduled.
C20_Witness ==
    /\ signal = "aborted"
    /\ gpc = "idle"
    /\ pending > 0
    /\ iterationCount > 0
    /\ Len(cells) > 0

(* C19: run on the grid a transition of Generation started from, each       *)
(* historical checkSurrounding (if/else, switch, switch inside a function,   *)
(* isAlive returning false off the grid) ends with the grid the transition   *)
(* ended with; its count for every cell is the number of alive neighbours    *)
(* inside the grid, so no variant wraps around the edges.                    *)
C19_VariantsAgree ==
    TransitionDone =>
        \A variant \in Variants :
            /\ SameFrame(checkSurrounding(variant, pre), cells)
            /\ AlivePattern(checkSurrounding(variant, pre)) = AlivePattern(cells)
            /\ \A k \in DOMAIN pre :
                   CellManager_numAlive(pre, pre[k].gridX, pre[k].gridY) = Num(NeighboursOf(pre, k))

\* C19 witness: a transition of the 3x3 grid in which a corner cell with two
\* alive neighbours stayed alive, the centre cell was born or died, and the
\* pattern changed.
C19_Witness ==
    /\ TransitionDone
    /\ columns = 3 /\ rows = 3
    /\ pre[1].alive /\ NeighboursOf(pre, 1) = 2 /\ cells[1].alive
    /\ pre[5].alive # cells[5].alive
    /\ AlivePattern(cells) # AlivePattern(pre)

\* The loops of the Game that are alive: a loop is either waiting as a
\* scheduled callback or running its callback.
LoopsAlive == pending + (IF task = "loop" THEN 1 ELSE 0)

(* C21: whatever calls of start() and stop() a Game gets, at most one of its *)
(* timer loops is alive, so that an interval brings at most one advance.     *)
C21_OneLoop == LoopsAlive <= 1

(* C22: if the Game is stopped and not started again, then from some point   *)
(* on no loop callback is pending.                                           *)
C22_LoopEnds == <>[](signal = "aborted") => <>[](pending = 0)

(* C23: a call of start() on a running game (started, not stopped) throws   *)
(* and leaves the controller, the signal, the generation and iterationCount  *)
(* as they were, and no further loop is scheduled.                           *)
C23_StartWhileRunning ==
    [][(signal = "active" /\ (start \/ startThrows)) =>
          /\ error' = "Game is running and not be started. Stop it first."
          /\ UNCHANGED <<controller, signal, genVars, iterationCount, pending, task>>]_vars

\* C23 witness: start() has thrown on a running game that has advanced.
C23_Witness ==
    /\ error = "Game is running and not be started. Stop it first."
    /\ signal = "active"
    /\ controller = 1
    /\ LoopsAlive = 1
    /\ iterationCount > 0

(* C24: a call of stop() on a game that was never started throws 'Game is   *)
(* not running' and changes nothing; on a started game, stopped since or     *)
(* not, it does not throw and leaves the signal aborted.                     *)
C24_Stop ==
    [][(stop \/ stopThrows) =>
          IF controller = 0
          THEN /\ error' = "Game is not running"
               /\ UNCHANGED <<genVars, signal, controller, iterationCount, pending,
                              task, gpc, drawIndex, drawn>>
          ELSE /\ error' = "none"
               /\ signal' = "aborted"
               /\ UNCHANGED <<genVars, controller, iterationCount>>]_vars

\* C24 witness: stop() has thrown on a game that was never started but has
\* been advanced by its user.
C24_Witness ==
    /\ error = "Game is not running"
    /\ controller = 0
    /\ signal = "null"
    /\ iterationCount > 0
    /\ gpc = "idle"

(* C25: iterationCount counts the calls of generation.next(); the first      *)
(* call populates the grid and each later one is a transition, so that       *)
(* after one iteration the grid has been populated and not advanced, and     *)
(* after the second and every later iteration the last call of next() was a  *)
(* transition.                                                               *)
C25_IterationCount ==
    /\ (gpc = "idle" /\ iterationCount = 0) => lastOp = "none"
    /\ (gpc = "idle" /\ iterationCount = 1) => lastOp = "createGrid"
    /\ (gpc = "idle" /\ iterationCount >= 2) => lastOp = "update"

====
